---- MODULE Spec2Model ----
(***************************************************************************)
(* Model of CustomAgent.choose_move (scripts/players/hli605.py): the       *)
(* per-battle scratch dictionary, the commit (intent) path, the            *)
(* enumeration and one-ply evaluation of candidate actions, the forced     *)
(* switch path and the catch-all fallback.                                 *)
(*                                                                         *)
(* Floats are IEEE doubles [s, e, m] computed as the code computes them.    *)
(* Library objects (battle, pokemon, move, type) are records; Python's     *)
(* None is the string "None" for scalars and the record NoPokemon for a    *)
(* pokemon.                                                                *)
(***************************************************************************)
EXTENDS Integers, Sequences, FiniteSets, TLC

(***************************************************************************)
(* The code's float arithmetic: IEEE 754 binary64, round to nearest, ties  *)
(* to even.  Integers here are 32 bits wide, so a mantissa is held as a    *)
(* little-endian sequence of 15-bit limbs without leading zero limbs.      *)
(***************************************************************************)
Limb == 32768
LimbBits == 15
Precision == 53

RECURSIVE Pow2(_)
Pow2(k) == IF k = 0 THEN 1 ELSE 2 * Pow2(k - 1)

\* the number of bits of n >= 0
RECURSIVE IntBits(_)
IntBits(n) == IF n = 0 THEN 0 ELSE 1 + IntBits(n \div 2)

Abs(n) == IF n < 0 THEN -n ELSE n

RECURSIVE BInt(_)
BInt(n) == IF n = 0 THEN <<>> ELSE <<n % Limb>> \o BInt(n \div Limb)

RECURSIVE BTrim(_)
BTrim(a) ==
  IF a = <<>> \/ a[Len(a)] # 0 THEN a ELSE BTrim(SubSeq(a, 1, Len(a) - 1))

RECURSIVE BCmpFrom(_, _, _)
BCmpFrom(a, b, i) ==
  IF i = 0 THEN 0
  ELSE IF a[i] # b[i] THEN (IF a[i] < b[i] THEN -1 ELSE 1)
  ELSE BCmpFrom(a, b, i - 1)

\* -1, 0 or 1 as a < b, a = b or a > b
BCmp(a, b) ==
  IF Len(a) # Len(b) THEN (IF Len(a) < Len(b) THEN -1 ELSE 1)
  ELSE BCmpFrom(a, b, Len(a))

RECURSIVE BAddC(_, _, _)
BAddC(a, b, c) ==
  IF a = <<>> /\ b = <<>> THEN (IF c = 0 THEN <<>> ELSE <<c>>)
  ELSE IF a = <<>> THEN BAddC(b, a, c)
  ELSE IF b = <<>>
  THEN <<(Head(a) + c) % Limb>> \o BAddC(Tail(a), b, (Head(a) + c) \div Limb)
  ELSE <<(Head(a) + Head(b) + c) % Limb>>
       \o BAddC(Tail(a), Tail(b), (Head(a) + Head(b) + c) \div Limb)

\* a - b - c for a >= b + c, limb by limb with borrow c
RECURSIVE BSubC(_, _, _)
BSubC(a, b, c) ==
  IF a = <<>> THEN <<>>
  ELSE IF b = <<>>
  THEN <<(Head(a) - c) % Limb>> \o BSubC(Tail(a), b, IF Head(a) - c < 0 THEN 1 ELSE 0)
  ELSE <<(Head(a) - Head(b) - c) % Limb>>
       \o BSubC(Tail(a), Tail(b), IF Head(a) - Head(b) - c < 0 THEN 1 ELSE 0)

BSub(a, b) == BTrim(BSubC(a, b, 0))

\* a * k + c for 0 <= k, c < Limb
RECURSIVE BMulSmall(_, _, _)
BMulSmall(a, k, c) ==
  IF a = <<>> THEN (IF c = 0 THEN <<>> ELSE <<c>>)
  ELSE <<(Head(a) * k + c) % Limb>> \o BMulSmall(Tail(a), k, (Head(a) * k + c) \div Limb)

RECURSIVE BMul(_, _)
BMul(a, b) ==
  IF a = <<>> \/ b = <<>> THEN <<>>
  ELSE IF Head(b) = 0 THEN <<0>> \o BMul(a, Tail(b))
  ELSE BAddC(BMulSmall(a, Head(b), 0),
             IF Tail(b) = <<>> THEN <<>> ELSE <<0>> \o BMul(a, Tail(b)), 0)

\* a * 2^k
BShl(a, k) ==
  IF a = <<>> THEN a
  ELSE [i \in 1..(k \div LimbBits) |-> 0] \o BMulSmall(a, Pow2(k % LimbBits), 0)

\* floor(a / 2^k): limb i is taken from the limbs i + k \div LimbBits and the
\* next one of a
BShr(a, k) ==
  IF Len(a) <= k \div LimbBits THEN <<>>
  ELSE BTrim([i \in 1..(Len(a) - k \div LimbBits) |->
                (a[i + k \div LimbBits] \div Pow2(k % LimbBits))
                + (IF i + k \div LimbBits < Len(a)
                   THEN (a[i + k \div LimbBits + 1] % Pow2(k % LimbBits))
                        * Pow2(LimbBits - (k % LimbBits))
                   ELSE 0)])

\* a double: sign s in {-1, 0, 1}, mantissa m of 53 bits (four limbs, the top
\* bit set) and exponent e; its value is s * m * 2^e
FZero == [s |-> 0, e |-> 0, m |-> <<>>]

\* 2^k
TwoTo(k) == [s |-> 1, e |-> k - 52, m |-> <<0, 0, 0, 128>>]

FOne == TwoTo(0)
Half == TwoTo(-1)

\* round to nearest, ties to even: q the truncated mantissa, c the sign of
\* (what was dropped) - (half a unit in the last place); the mantissa q + 1
\* is carried into the next binade when it reaches 2^53
Nearest(sg, q, c, e) ==
  IF c > 0 \/ (c = 0 /\ q[1] % 2 = 1)
  THEN IF BAddC(q, <<>>, 1)[4] = 256
       THEN [s |-> sg, e |-> e + 1, m |-> <<0, 0, 0, 128>>]
       ELSE [s |-> sg, e |-> e, m |-> BAddC(q, <<>>, 1)]
  ELSE [s |-> sg, e |-> e, m |-> q]

\* n has sh bits more than a mantissa holds (fewer when sh < 0)
Normal(sg, n, e, sh) ==
  IF sh <= 0 THEN [s |-> sg, e |-> e + sh, m |-> BShl(n, -sh)]
  ELSE Nearest(sg, BShr(n, sh),
               BCmp(BSub(n, BShl(BShr(n, sh), sh)), BShl(<<1>>, sh - 1)), e + sh)

\* the double nearest to sg * n * 2^e
Fl(sg, n, e) ==
  IF n = <<>> \/ sg = 0 THEN FZero
  ELSE Normal(sg, n, e, LimbBits * (Len(n) - 1) + IntBits(n[Len(n)]) - Precision)

\* float(n) for an integer n
FInt(n) ==
  IF n = 0 THEN FZero
  ELSE [s |-> IF n < 0 THEN -1 ELSE 1, e |-> IntBits(Abs(n)) - Precision,
        m |-> BShl(BInt(Abs(n)), Precision - IntBits(Abs(n)))]

FCmp(x, y) ==
  IF x.s # y.s THEN (IF x.s < y.s THEN -1 ELSE 1)
  ELSE IF x.s = 0 THEN 0
  ELSE IF x.e # y.e THEN (IF x.e < y.e THEN -x.s ELSE x.s)
  ELSE x.s * BCmp(x.m, y.m)

FLt(x, y) == FCmp(x, y) < 0
FLe(x, y) == FCmp(x, y) <= 0
FMin(x, y) == IF FLt(y, x) THEN y ELSE x
FMax(x, y) == IF FLt(x, y) THEN y ELSE x

\* the mantissas a and b of x and y on the smaller exponent e, added or
\* subtracted by the signs
FAdd(x, y) ==
  IF x.s = 0 THEN y
  ELSE IF y.s = 0 THEN x
  ELSE LET e == IF x.e < y.e THEN x.e ELSE y.e
           a == BShl(x.m, x.e - e)
           b == BShl(y.m, y.e - e)
           c == BCmp(a, b)
       IN  Fl(IF x.s = y.s \/ c > 0 THEN x.s ELSE y.s,
              IF x.s = y.s THEN BAddC(a, b, 0)
              ELSE IF c >= 0 THEN BSub(a, b) ELSE BSub(b, a),
              e)

FSub(x, y) == FAdd(x, [y EXCEPT !.s = -y.s])

FMul(x, y) == Fl(x.s * y.s, BMul(x.m, y.m), x.e + y.e)

\* the integer held by the limbs of a from the third up (a < 2^61)
BTop(a) ==
  (IF Len(a) > 2 THEN a[3] ELSE 0) + (IF Len(a) > 3 THEN a[4] * Limb ELSE 0)
  + (IF Len(a) > 4 THEN a[5] * Limb * Limb ELSE 0)

\* long division in radix 256: k more digits of r / d (r < d) appended to q,
\* then one sticky bit for a remainder.  A digit is first estimated from the
\* top limbs (lo, at most one too small) and then corrected.
RECURSIVE DivDigits(_, _, _, _)
DivDigits(r, d, q, k) ==
  IF k = 0 THEN BMulSmall(q, 2, IF r = <<>> THEN 0 ELSE 1)
  ELSE LET shifted == BMulSmall(r, 256, 0)
           lo == BTop(shifted) \div (BTop(d) + 1)
           rest == BSub(shifted, BMulSmall(d, lo, 0))
       IN  IF BCmp(rest, d) >= 0
           THEN DivDigits(BSub(rest, d), d, BMulSmall(q, 256, lo + 1), k - 1)
           ELSE DivDigits(rest, d, BMulSmall(q, 256, lo), k - 1)

FDiv(x, y) ==
  IF x.s = 0 THEN FZero
  ELSE Fl(x.s * y.s,
          DivDigits(IF BCmp(x.m, y.m) >= 0 THEN BSub(x.m, y.m) ELSE x.m, y.m,
                    IF BCmp(x.m, y.m) >= 0 THEN <<1>> ELSE <<>>, 8),
          x.e - y.e - 65)

\* k more limbs of the quotient r / d (r < d < Limb) put below those of q,
\* and the remainder left
RECURSIVE Quotient(_, _, _, _)
Quotient(r, d, k, q) ==
  IF k = 0 THEN <<q, r>>
  ELSE Quotient((r * Limb) % d, d, k - 1, <<(r * Limb) \div d>> \o q)

\* the double nearest to n / d for integers 0 <= |n| < Limb and 0 < d < Limb:
\* a decimal literal, or the quotient of two small integers.  n / d is scaled
\* by 2^j into [128, 256), so that the top limb of the mantissa is the integer
\* part of num / den, and rounded by the remainder.
F(n, d) ==
  IF n = 0 THEN FZero
  ELSE LET a == Abs(n)
           j0 == 7 + IntBits(d) - IntBits(a)
           j == IF (IF j0 >= 0 THEN a * Pow2(j0) >= 128 * d
                    ELSE a >= 128 * d * Pow2(-j0))
                THEN j0 ELSE j0 + 1
           num == IF j >= 0 THEN a * Pow2(j) ELSE a
           den == IF j >= 0 THEN d ELSE d * Pow2(-j)
           qr == Quotient(num % den, den, 3, <<num \div den>>)
       IN  Nearest(IF n < 0 THEN -1 ELSE 1, qr[1],
                   IF 2 * qr[2] > den THEN 1 ELSE IF 2 * qr[2] = den THEN 0 ELSE -1,
                   -45 - j)

(***************************************************************************)
(* The library's type chart (PokemonType.damage_multiplier), generation 9. *)
(***************************************************************************)
Strong ==
  [NORMAL |-> {}, FIRE |-> {"GRASS", "ICE", "BUG", "STEEL"},
   WATER |-> {"FIRE", "GROUND", "ROCK"}, ELECTRIC |-> {"WATER", "FLYING"},
   GRASS |-> {"WATER", "GROUND", "ROCK"},
   ICE |-> {"GRASS", "GROUND", "FLYING", "DRAGON"},
   FIGHTING |-> {"NORMAL", "ICE", "ROCK", "DARK", "STEEL"},
   POISON |-> {"GRASS", "FAIRY"},
   GROUND |-> {"FIRE", "ELECTRIC", "POISON", "ROCK", "STEEL"},
   FLYING |-> {"GRASS", "FIGHTING", "BUG"}, PSYCHIC |-> {"FIGHTING", "POISON"},
   BUG |-> {"GRASS", "PSYCHIC", "DARK"}, ROCK |-> {"FIRE", "ICE", "FLYING", "BUG"},
   GHOST |-> {"PSYCHIC", "GHOST"}, DRAGON |-> {"DRAGON"},
   DARK |-> {"PSYCHIC", "GHOST"}, STEEL |-> {"ICE", "ROCK", "FAIRY"},
   FAIRY |-> {"FIGHTING", "DRAGON", "DARK"}]

Weak ==
  [NORMAL |-> {"ROCK", "STEEL"}, FIRE |-> {"FIRE", "WATER", "ROCK", "DRAGON"},
   WATER |-> {"WATER", "GRASS", "DRAGON"}, ELECTRIC |-> {"ELECTRIC", "GRASS", "DRAGON"},
   GRASS |-> {"FIRE", "GRASS", "POISON", "FLYING", "BUG", "DRAGON", "STEEL"},
   ICE |-> {"FIRE", "WATER", "ICE", "STEEL"},
   FIGHTING |-> {"POISON", "FLYING", "PSYCHIC", "BUG", "FAIRY"},
   POISON |-> {"POISON", "GROUND", "ROCK", "GHOST"}, GROUND |-> {"GRASS", "BUG"},
   FLYING |-> {"ELECTRIC", "ROCK", "STEEL"}, PSYCHIC |-> {"PSYCHIC", "STEEL"},
   BUG |-> {"FIRE", "FIGHTING", "POISON", "FLYING", "GHOST", "STEEL", "FAIRY"},
   ROCK |-> {"FIGHTING", "GROUND", "STEEL"}, GHOST |-> {"DARK"},
   DRAGON |-> {"STEEL"}, DARK |-> {"FIGHTING", "DARK", "FAIRY"},
   STEEL |-> {"FIRE", "WATER", "ELECTRIC", "STEEL"},
   FAIRY |-> {"FIRE", "POISON", "STEEL"}]

Immune ==
  [NORMAL |-> {"GHOST"}, FIRE |-> {}, WATER |-> {}, ELECTRIC |-> {"GROUND"},
   GRASS |-> {}, ICE |-> {}, FIGHTING |-> {"GHOST"}, POISON |-> {"STEEL"},
   GROUND |-> {"FLYING"}, FLYING |-> {}, PSYCHIC |-> {"DARK"}, BUG |-> {},
   ROCK |-> {}, GHOST |-> {"NORMAL"}, DRAGON |-> {"FAIRY"}, DARK |-> {},
   STEEL |-> {}, FAIRY |-> {}]

Chart(atk, def) ==
  IF def \in Immune[atk] THEN FZero
  ELSE IF def \in Strong[atk] THEN TwoTo(1)
  ELSE IF def \in Weak[atk] THEN Half
  ELSE FOne

\* t.damage_multiplier(*types) for one or two defending types
damage_multiplier(t, types) ==
  IF Len(types) = 1 THEN Chart(t, types[1])
  ELSE FMul(Chart(t, types[1]), Chart(t, types[2]))

(***************************************************************************)
(* Library data read by the agent.  A move is named by its id; MoveData is *)
(* the library's entry for it.  An id the library has no entry for is      *)
(* known = FALSE: reading base_power (or any other datum) of such a move   *)
(* raises.                                                                 *)
(***************************************************************************)
Mv(bp, acc, ty, cat) ==
  [base_power |-> bp, accuracy |-> acc, type |-> ty, category |-> cat, known |-> TRUE]

MoveData ==
  [stealthrock    |-> Mv(0, 100, "ROCK", "status"),
   sunsteelstrike |-> Mv(100, 100, "STEEL", "physical"),
   earthquake     |-> Mv(100, 100, "GROUND", "physical"),
   morningsun     |-> Mv(0, 100, "NORMAL", "status"),
   judgment       |-> Mv(100, 100, "NORMAL", "special"),
   calmmind       |-> Mv(0, 100, "PSYCHIC", "status"),
   recover        |-> Mv(0, 100, "NORMAL", "status"),
   earthpower     |-> Mv(90, 100, "GROUND", "special"),
   sludgebomb     |-> Mv(90, 100, "POISON", "special"),
   flamethrower   |-> Mv(90, 100, "FIRE", "special"),
   toxicspikes    |-> Mv(0, 100, "POISON", "status"),
   willowisp      |-> Mv(0, 85, "FIRE", "status"),
   hex            |-> Mv(65, 100, "GHOST", "special"),
   defog          |-> Mv(0, 100, "FLYING", "status"),
   dragontail     |-> Mv(60, 90, "DRAGON", "physical"),
   spikes         |-> Mv(0, 100, "GROUND", "status"),
   whirlwind      |-> Mv(0, 100, "NORMAL", "status"),
   ruination      |-> Mv(0, 90, "DARK", "special"),
   makeitrain     |-> Mv(120, 100, "STEEL", "special"),
   shadowball     |-> Mv(80, 100, "GHOST", "special"),
   nastyplot      |-> Mv(0, 100, "DARK", "status"),
   originpulse    |-> Mv(110, 85, "WATER", "special"),
   thunder        |-> Mv(110, 70, "ELECTRIC", "special"),
   sacredfire     |-> Mv(100, 95, "FIRE", "physical"),
   bravebird      |-> Mv(120, 100, "FLYING", "physical"),
   collisioncourse |-> Mv(100, 100, "FIGHTING", "physical"),
   flareblitz     |-> Mv(120, 100, "FIRE", "physical"),
   unknownmove    |-> [base_power |-> 0, accuracy |-> 100, type |-> "None",
                       category |-> "status", known |-> FALSE]]

\* Move.accuracy: the entry's percentage over 100
Accuracy(move) == F(move.accuracy, 100)

NoBoosts == [atk |-> 0, def |-> 0, spa |-> 0, spd |-> 0, spe |-> 0]

\* Python's None where a pokemon is expected
NoPokemon ==
  [species |-> "None", types |-> <<>>, tera_type |-> "None", hp |-> FZero,
   status |-> "None", boosts |-> NoBoosts, moves |-> <<>>, spe |-> 0,
   base_stats |-> [atk |-> 0, spa |-> 0, spe |-> 0], fainted |-> FALSE,
   last_move |-> "None"]

IsNone(p) == p.species = "None"

\* base_power and the other data of a move raise for an id the library lacks
MoveRaises(mid) == ~MoveData[mid].known

AnyRaises(mids) == \E i \in 1..Len(mids) : MoveRaises(mids[i])

(***************************************************************************)
(* Side conditions: a sequence of [k, v] items in dict order; k stands for *)
(* str(key).lower(), either a plain name or the library enum's text        *)
(* "<name> (side condition) object".                                       *)
(***************************************************************************)
NameContains(name, sub) ==
  CASE sub = "stealthrock" -> name = "stealthrock"
    [] sub = "spikes" -> name \in {"spikes", "toxicspikes", "spikes (side condition) object",
                                   "toxic_spikes (side condition) object"}
    [] sub = "toxic" -> name \in {"toxicspikes", "toxic_spikes (side condition) object"}
    [] sub = "toxicspikes" -> name = "toxicspikes"
    [] sub = "stickyweb" -> name = "stickyweb"
    [] OTHER -> FALSE

_has_side_condition(side_conditions, name_substring) ==
  \E i \in 1..Len(side_conditions) : NameContains(side_conditions[i].k, name_substring)

Layers(v) == IF v = 0 THEN 1 ELSE v

RECURSIVE SumHazardCount(_, _)
SumHazardCount(sc, i) ==
  IF i > Len(sc) THEN 0
  ELSE LET name == sc[i].k
           add == IF NameContains(name, "stealthrock") THEN 1
                  ELSE IF NameContains(name, "spikes") /\ ~NameContains(name, "toxic")
                       THEN Layers(sc[i].v)
                  ELSE IF NameContains(name, "toxicspikes") THEN Layers(sc[i].v)
                  ELSE IF NameContains(name, "stickyweb") THEN 1
                  ELSE 0
       IN  add + SumHazardCount(sc, i + 1)

_hazard_count(side_conditions) == SumHazardCount(side_conditions, 1)

\* what one side condition adds to the pressure, layers being float(layers)
HazardWeight(name, layers) ==
  IF NameContains(name, "stealthrock") THEN F(12, 10)
  ELSE IF NameContains(name, "spikes") /\ ~NameContains(name, "toxic")
  THEN FMul(F(9, 10), layers)
  ELSE IF NameContains(name, "toxicspikes") THEN FMul(F(8, 10), layers)
  ELSE IF NameContains(name, "stickyweb") THEN F(15, 10)
  ELSE FZero

\* the loop of _hazard_pressure from item i on, pressure being the sum so far
RECURSIVE SumHazardPressure(_, _, _)
SumHazardPressure(sc, i, pressure) ==
  IF i > Len(sc) THEN pressure
  ELSE SumHazardPressure(sc, i + 1,
         FAdd(pressure, HazardWeight(sc[i].k, FInt(Layers(sc[i].v)))))

_hazard_pressure(side_conditions) == SumHazardPressure(side_conditions, 1, FZero)

_predict_opp_will_defog(battle) ==
  FLe(F(15, 10), _hazard_pressure(battle.opponent_side_conditions))

\* x += v under cond
Added(x, cond, v) == IF cond THEN FAdd(x, v) ELSE x

\* x *= factor under cond
Scaled(x, cond, factor) == IF cond THEN FMul(x, factor) ELSE x

_defog_value(battle) ==
  FMax(FZero,
       Added(Added(FZero, FLe(FOne, _hazard_pressure(battle.side_conditions)),
                   FAdd(FInt(110),
                        FMul(FInt(30),
                             FSub(_hazard_pressure(battle.side_conditions),
                                  FMax(FZero,
                                       FSub(_hazard_pressure(battle.opponent_side_conditions),
                                            Half)))))),
             _has_side_condition(battle.side_conditions, "stickyweb"), FInt(80)))

_rapid_spin_value(battle) ==
  FMax(FZero,
       IF FLt(FZero, _hazard_pressure(battle.side_conditions))
       THEN FAdd(FInt(95), FMul(FInt(35), _hazard_pressure(battle.side_conditions)))
       ELSE FZero)

(***************************************************************************)
(* Damage helpers.  A move argument is the library's entry of a move whose *)
(* data is known (callers account for the raising ids before using these). *)
(***************************************************************************)
_stage_multiplier(stage) ==
  IF stage >= 0 THEN F(2 + stage, 2) ELSE F(2, 2 - stage)

InTypes(t, types) == \E i \in 1..Len(types) : types[i] = t

_type_effectiveness(move, target) ==
  IF move.type = "None" \/ IsNone(target) THEN FOne
  ELSE IF Len(target.types) = 0 THEN FOne
  ELSE damage_multiplier(move.type, target.types)

_damage_multiplier_of_type(move_type, defender_types) ==
  IF move_type = "None" \/ Len(defender_types) = 0 THEN FOne
  ELSE damage_multiplier(move_type, defender_types)

\* attacker/defender boosts picked by the move's category; None has no boosts
AtkBoost(move, attacker, statusAsPhysical) ==
  IF IsNone(attacker) THEN 0
  ELSE IF move.category = "special" THEN attacker.boosts.spa
  ELSE IF move.category = "physical" \/ statusAsPhysical THEN attacker.boosts.atk
  ELSE 0

DefBoost(move, defender, statusAsPhysical) ==
  IF IsNone(defender) THEN 0
  ELSE IF move.category = "special" THEN defender.boosts.spd
  ELSE IF move.category = "physical" \/ statusAsPhysical THEN defender.boosts.def
  ELSE 0

BoostFactor(atk_boost, def_boost) ==
  FDiv(_stage_multiplier(atk_boost), FMax(Half, _stage_multiplier(def_boost)))

\* score = float(base_power) * float(accuracy) * stab * type_multiplier * boost_factor
DamageProduct(move, stab, type_multiplier, boost_factor) ==
  FMul(FMul(FMul(FMul(FInt(move.base_power), Accuracy(move)), stab), type_multiplier),
       boost_factor)

_move_damage_score(move, attacker, defender) ==
  IF move.base_power <= 0 THEN Half
  ELSE DamageProduct(move,
         IF move.type # "None" /\ ~IsNone(attacker) /\ InTypes(move.type, attacker.types)
         THEN F(3, 2) ELSE FOne,
         _type_effectiveness(move, defender),
         BoostFactor(AtkBoost(move, attacker, FALSE), DefBoost(move, defender, FALSE)))

\* stab with tera: is_orig the move's type among the attacker's own types,
\* is_tera the move's type being the tera type
TeraStab(is_orig, is_tera) ==
  IF is_orig /\ is_tera THEN TwoTo(1)
  ELSE IF is_orig \/ is_tera THEN F(3, 2)
  ELSE FOne

\* attacker None: attacker.types raises inside the try, stab stays 1.0
_move_damage_score_with_tera(move, attacker, defender, tera_type) ==
  IF move.base_power <= 0 THEN Half
  ELSE DamageProduct(move,
         IF IsNone(attacker) \/ move.type = "None" THEN FOne
         ELSE TeraStab(InTypes(move.type, attacker.types),
                       tera_type # "None" /\ move.type = tera_type),
         _type_effectiveness(move, defender),
         BoostFactor(AtkBoost(move, attacker, FALSE), DefBoost(move, defender, FALSE)))

_rough_damage_score_types(move, attacker_types, defender_types, attacker, defender) ==
  IF move.base_power <= 0 THEN FZero
  ELSE DamageProduct(move,
         IF move.type # "None" /\ InTypes(move.type, attacker_types)
         THEN F(3, 2) ELSE FOne,
         _damage_multiplier_of_type(move.type, defender_types),
         BoostFactor(AtkBoost(move, attacker, TRUE), DefBoost(move, defender, TRUE)))

(***************************************************************************)
(* State inference helpers                                                 *)
(***************************************************************************)
RECURSIVE WorstMultiplier(_, _, _)
WorstMultiplier(atk_types, def_types, i) ==
  IF i > Len(atk_types) THEN FOne
  ELSE FMax(damage_multiplier(atk_types[i], def_types),
            WorstMultiplier(atk_types, def_types, i + 1))

_danger_multiplier(our_pokemon, opp_pokemon) ==
  IF IsNone(our_pokemon) \/ IsNone(opp_pokemon) THEN FOne
  ELSE WorstMultiplier(opp_pokemon.types, our_pokemon.types, 1)

_switch_safety_score(mon, opponent) ==
  IF IsNone(mon) \/ IsNone(opponent) THEN FOne
  ELSE WorstMultiplier(opponent.types, mon.types, 1)

_opponent_has_type(opp, type_name) ==
  ~IsNone(opp) /\ InTypes(type_name, opp.types)

_is_endgame(battle) ==
  Cardinality({i \in 1..Len(battle.opponent_team) : ~battle.opponent_team[i].fainted}) <= 2

\* stats["spe"] when set (non-zero), else base_stats["spe"]
Speed(mon) == IF mon.spe # 0 THEN mon.spe ELSE mon.base_stats.spe

_is_likely_faster(our_mon, opp_mon) ==
  IF IsNone(our_mon) \/ IsNone(opp_mon) THEN FALSE
  ELSE FLe(FInt(Speed(opp_mon)),
           Scaled(FInt(Speed(our_mon)), our_mon.boosts.spe # 0,
                  _stage_multiplier(our_mon.boosts.spe)))

_physical_lean(mon) ==
  LET atk == mon.base_stats.atk
      spa == mon.base_stats.spa
  IN  IF atk <= 0 /\ spa <= 0 THEN Half
      ELSE FAdd(FMul(FMax(FZero, FDiv(FInt(atk - spa), FMax(FOne, FInt(atk + spa)))),
                     TwoTo(1)),
                IF atk > spa THEN FOne ELSE Half)

_total_boost(mon) ==
  IF IsNone(mon) THEN 0
  ELSE mon.boosts.atk + mon.boosts.def + mon.boosts.spa + mon.boosts.spd + mon.boosts.spe

_mon_has_move(mon, move_id) ==
  ~IsNone(mon) /\ \E i \in 1..Len(mon.moves) : mon.moves[i] = move_id

_is_gholdengo(mon) == mon.species = "gholdengo"

_normalize_damage_score(dmg) == FMin(FDiv(dmg, FInt(220)), F(3, 2))

_normalize_utility_score(util) == FMin(FDiv(util, FInt(150)), F(6, 5))

_progress_value(battle, m) ==
  IF _is_endgame(battle)
  THEN IF MoveData[m].base_power > 0 THEN F(1, 10)
       ELSE IF m = "calmmind" THEN F(1, 20)
       ELSE F(-1, 20)
  ELSE IF m \in {"stealthrock", "spikes", "toxicspikes"} THEN F(3, 20)
       ELSE FZero

_hard_walls(our_types, opp_types) ==
  Cardinality({i \in 1..Len(opp_types) :
                 FLe(_damage_multiplier_of_type(opp_types[i], our_types), Half)}) >= 2

_types_after_tera(active, m, battle) ==
  IF ~battle.can_tera THEN active.types
  ELSE IF active.tera_type = "None" THEN active.types
  ELSE <<active.tera_type>>

\* current_hp_fraction or 1.0
HpFraction(mon) == IF mon.hp = FZero THEN FOne ELSE mon.hp

(***************************************************************************)
(* Showdown-like opponent model                                            *)
(***************************************************************************)
RECURSIVE BestMoveReply(_, _, _, _)
BestMoveReply(opp, dtypes, defender, i) ==
  IF i > Len(opp.moves) THEN FZero
  ELSE IF MoveData[opp.moves[i]].base_power <= 0
  THEN BestMoveReply(opp, dtypes, defender, i + 1)
  ELSE FMax(_rough_damage_score_types(MoveData[opp.moves[i]], opp.types, dtypes,
                                      opp, defender),
            BestMoveReply(opp, dtypes, defender, i + 1))

\* no revealed move: a generic 90 BP STAB of each known type
RECURSIVE BestStabReply(_, _, _)
BestStabReply(opp, dtypes, i) ==
  IF i > Len(opp.types) THEN FZero
  ELSE FMax(FMul(FMul(FInt(90), F(3, 2)), _damage_multiplier_of_type(opp.types[i], dtypes)),
            BestStabReply(opp, dtypes, i + 1))

\* best_dmg: the max-damage option of opp against defender with types dtypes
BestReply(opp, dtypes, defender) ==
  IF Len(opp.moves) > 0 THEN BestMoveReply(opp, dtypes, defender, 1)
  ELSE BestStabReply(opp, dtypes, 1)

\* mv.base_power raises for a revealed move the library has no data for
ReplyRaises(battle) ==
  /\ ~IsNone(battle.opponent_active_pokemon)
  /\ AnyRaises(battle.opponent_active_pokemon.moves)

\* expected = max(best_dmg * (1.0 - clear_bonus), best_dmg + switch_penalty),
\* clear: clear_desire >= 1.5, walled: _hard_walls
ExpectedReply(best_dmg, clear, walled) ==
  FMax(FMul(best_dmg, FSub(FOne, IF clear THEN F(15, 100) ELSE FZero)),
       FAdd(best_dmg, IF walled THEN FMul(F(-4, 10), best_dmg) ELSE FZero))

_opponent_reply_damage_score(battle, defender_types) ==
  IF IsNone(battle.opponent_active_pokemon) \/ IsNone(battle.active_pokemon) THEN FZero
  ELSE ExpectedReply(
         BestReply(battle.opponent_active_pokemon,
                   IF Len(defender_types) > 0 THEN defender_types
                   ELSE battle.active_pokemon.types,
                   battle.active_pokemon),
         FLe(F(15, 10), _hazard_pressure(battle.opponent_side_conditions)),
         _hard_walls(IF Len(defender_types) > 0 THEN defender_types
                     ELSE battle.active_pokemon.types,
                     battle.opponent_active_pokemon.types))

_opponent_reply_damage_score_vs(battle, defender) ==
  IF IsNone(battle.opponent_active_pokemon) \/ IsNone(defender) THEN FZero
  ELSE IF Len(defender.types) = 0 THEN FZero
  ELSE BestReply(battle.opponent_active_pokemon, defender.types, defender)

_would_be_ko_likely(battle) ==
  IF IsNone(battle.active_pokemon) THEN FALSE
  ELSE FLt(FAdd(HpFraction(battle.active_pokemon), F(15, 100)),
           _normalize_damage_score(
             _opponent_reply_damage_score(battle, battle.active_pokemon.types)))

(***************************************************************************)
(* Utility and scoring                                                     *)
(***************************************************************************)
\* util after the if/elif chain over the move id (lines 368-398), danger
\* being _danger_multiplier(active, opponent)
MoveUtility(battle, m, opponent, danger) ==
  CASE m = "stealthrock" ->
         IF ~_has_side_condition(battle.opponent_side_conditions, "stealthrock")
         THEN FSub(FInt(120), FMul(FInt(6), FInt(battle.turn))) ELSE FZero
    [] m = "spikes" -> FSub(FInt(95), FMul(FInt(5), FInt(battle.turn)))
    [] m = "toxicspikes" ->
         IF ~_has_side_condition(battle.opponent_side_conditions, "toxicspikes")
         THEN FMul(FSub(FInt(85), FMul(FInt(5), FInt(battle.turn))),
                   IF _opponent_has_type(opponent, "STEEL")
                      \/ _opponent_has_type(opponent, "POISON")
                   THEN F(6, 10) ELSE FOne)
         ELSE FZero
    [] m = "defog" -> _defog_value(battle)
    [] m = "rapidspin" -> _rapid_spin_value(battle)
    [] m = "willowisp" ->
         IF ~IsNone(opponent) /\ opponent.status = "None"
            /\ ~_opponent_has_type(opponent, "FIRE")
         THEN Scaled(FMul(FInt(95), _physical_lean(opponent)),
                     FLe(F(175, 100), danger), F(75, 100))
         ELSE FZero
    [] m = "dragontail" ->
         IF ~_opponent_has_type(opponent, "FAIRY")
         THEN Scaled(FInt(80 + (IF _hazard_count(battle.opponent_side_conditions) > 0
                                THEN 40 ELSE 0)
                             + (IF _total_boost(opponent) >= 2 THEN 40 ELSE 0)),
                     FLe(F(175, 100), danger), F(8, 10))
         ELSE FZero
    [] m = "calmmind" ->
         IF FLe(danger, FOne) /\ battle.turn <= 12 /\ ~_is_endgame(battle)
         THEN FInt(80) ELSE FZero
    [] OTHER -> FZero

\* <<util, dmg>>
_util_and_damage_score(battle, m, tera) ==
  <<Added(MoveUtility(battle, m, battle.opponent_active_pokemon,
                      _danger_multiplier(battle.active_pokemon,
                                         battle.opponent_active_pokemon)),
          m = "ruination",
          FMul(FMul(FInt(120), HpFraction(battle.opponent_active_pokemon)),
               Accuracy(MoveData[m]))),
    Scaled(Scaled(Scaled(IF tera
                         THEN _move_damage_score_with_tera(
                                MoveData[m], battle.active_pokemon,
                                battle.opponent_active_pokemon,
                                battle.active_pokemon.tera_type)
                         ELSE _move_damage_score(MoveData[m], battle.active_pokemon,
                                                 battle.opponent_active_pokemon),
                         m \in {"overheat", "dracometeor", "leafstorm"}, F(9, 10)),
                  m \in {"closecombat", "headlongrush"}, F(95, 100)),
           m = "hex" /\ ~IsNone(battle.opponent_active_pokemon)
             /\ battle.opponent_active_pokemon.status # "None",
           F(19, 10))>>

\* an action is [type, move, tera, target]; the unused fields are "None"/NoPokemon
MoveAction(m, tera) == [type |-> "move", move |-> m, tera |-> tera, target |-> NoPokemon]
SwitchAction(mon) == [type |-> "switch", move |-> "None", tera |-> FALSE, target |-> mon]

\* move.accuracy < 0.85 and danger >= 1.75 (line 222)
AccuracyGated(battle, m) ==
  /\ FLt(Accuracy(MoveData[m]), F(85, 100))
  /\ FLe(F(175, 100),
         _danger_multiplier(battle.active_pokemon, battle.opponent_active_pokemon))

\* lines 243-248: the tera variant nets less than 20% over the baseline
WeakTera(tera, our_damage_norm, base_norm) ==
  /\ tera
  /\ FLt(FZero, base_norm)
  /\ FLt(FDiv(FSub(our_damage_norm, base_norm), FMax(F(1, 1000), base_norm)), F(2, 10))

\* lines 226-251 with our_damage_norm and util_norm as the accuracy gate left
\* them: net = (our_damage_norm + util_norm + progress_norm)
\*             - (reply_weight * opp_damage_norm), down-ranked for a weak tera
GatedMoveScore(battle, m, tera, our_damage_norm, util_norm) ==
  Scaled(FSub(FAdd(FAdd(our_damage_norm, util_norm), _progress_value(battle, m)),
              FMul(IF _is_likely_faster(battle.active_pokemon,
                                        battle.opponent_active_pokemon)
                   THEN F(7, 10) ELSE F(85, 100),
                   _normalize_damage_score(
                     _opponent_reply_damage_score(battle,
                       IF tera THEN _types_after_tera(battle.active_pokemon, m, battle)
                       ELSE battle.active_pokemon.types)))),
         WeakTera(tera, our_damage_norm,
                  _normalize_damage_score(
                    _move_damage_score(MoveData[m], battle.active_pokemon,
                                       battle.opponent_active_pokemon))),
         F(9, 10))

\* the score of a move candidate from ud = <<util, dmg>> on (lines 214-251)
MoveScore(battle, m, tera, ud) ==
  GatedMoveScore(battle, m, tera,
    Scaled(_normalize_damage_score(ud[2]), AccuracyGated(battle, m), F(9, 10)),
    Scaled(_normalize_utility_score(ud[1]), AccuracyGated(battle, m), F(9, 10)))

EvaluateMove(battle, m, tera) ==
  MoveScore(battle, m, tera, _util_and_damage_score(battle, m, tera))

(***************************************************************************)
(* Switching heuristics                                                    *)
(***************************************************************************)
\* The loop over mon.moves inside the try: <<best so far, raised>>.  A move
\* without data raises at base_power and leaves best as it was.
RECURSIVE OffenseOverMoves(_, _, _, _)
OffenseOverMoves(mon, opponent, i, best) ==
  IF i > Len(mon.moves) THEN <<best, FALSE>>
  ELSE IF MoveRaises(mon.moves[i]) THEN <<best, TRUE>>
  ELSE IF MoveData[mon.moves[i]].base_power <= 0
          /\ mon.moves[i] \notin {"hex", "ruination"}
  THEN OffenseOverMoves(mon, opponent, i + 1, best)
  ELSE OffenseOverMoves(mon, opponent, i + 1,
         FMax(best, Scaled(_move_damage_score(MoveData[mon.moves[i]], mon, opponent),
                           mon.moves[i] = "hex" /\ opponent.status # "None",
                           F(19, 10))))

\* default to 90BP STAB
RECURSIVE OffenseOverTypes(_, _, _, _)
OffenseOverTypes(mon, opponent, i, best) ==
  IF i > Len(mon.types) THEN best
  ELSE OffenseOverTypes(mon, opponent, i + 1,
         FMax(best, FMul(FInt(90), damage_multiplier(mon.types[i], opponent.types))))

\* tried = <<best, raised>> of the loop over the moves; the except clause and
\* the empty move list default to the types
OffenseAfter(mon, opponent, tried) ==
  IF Len(mon.moves) > 0 /\ ~tried[2] THEN tried[1]
  ELSE OffenseOverTypes(mon, opponent, 1,
                        IF Len(mon.moves) > 0 THEN tried[1] ELSE FZero)

_switch_offense_score(mon, opponent) ==
  IF IsNone(mon) \/ IsNone(opponent) THEN FZero
  ELSE OffenseAfter(mon, opponent, OffenseOverMoves(mon, opponent, 1, FZero))

\* score = (-1.0 * safety) + 0.4 * norm(offense) + util (lines 526-535)
SwitchValue(battle, mon) ==
  FAdd(FAdd(FMul(FInt(-1), _switch_safety_score(mon, battle.opponent_active_pokemon)),
            FMul(F(4, 10),
                 _normalize_damage_score(
                   _switch_offense_score(mon, battle.opponent_active_pokemon)))),
       Added(Added(FZero, _predict_opp_will_defog(battle) /\ _is_gholdengo(mon), Half),
             FLe(TwoTo(1), _hazard_pressure(battle.side_conditions))
               /\ _mon_has_move(mon, "defog"),
             F(4, 10)))

\* the loop of _pick_best_switch from candidate i on: best is the index of the
\* best so far (0 for None) and best_val its value (unused while best = 0,
\* where the code holds -inf)
RECURSIVE PickLoop(_, _, _, _)
RECURSIVE PickStep(_, _, _, _, _)
PickLoop(battle, i, best, best_val) ==
  IF i > Len(battle.available_switches) THEN best
  ELSE PickStep(battle, i, best, best_val,
                SwitchValue(battle, battle.available_switches[i]))

\* faulty variant of one round: >= keeps the last maximum
PickStepLast(battle, i, best, best_val, score) ==
  IF best = 0 \/ FLe(best_val, score)
  THEN PickLoop(battle, i + 1, i, score)
  ELSE PickLoop(battle, i + 1, best, best_val)

\* one round of the loop: score is the value of candidate i
PickStep(battle, i, best, best_val, score) ==
  IF best = 0 \/ FLt(best_val, score)
  THEN PickLoop(battle, i + 1, i, score)
  ELSE PickLoop(battle, i + 1, best, best_val)

\* the mon at index best of the candidates, None for index 0
PickedMon(battle, best) ==
  IF best = 0 THEN NoPokemon ELSE battle.available_switches[best]

_pick_best_switch(battle) == PickedMon(battle, PickLoop(battle, 1, 0, FZero))

\* net = util_norm + offense_norm - (0.8 * opp_damage_norm) (lines 253-278)
EvaluateSwitch(battle, target) ==
  FSub(FAdd(Added(Added(FZero,
                        FLe(F(15, 10), _hazard_pressure(battle.side_conditions))
                          /\ _mon_has_move(target, "defog"),
                        F(3, 10)),
                  _predict_opp_will_defog(battle) /\ _is_gholdengo(target), F(4, 10)),
            FMul(_normalize_damage_score(
                   _switch_offense_score(target, battle.opponent_active_pokemon)),
                 Half)),
       FMul(F(8, 10),
            _normalize_damage_score(_opponent_reply_damage_score_vs(battle, target))))

_evaluate_action(battle, action) ==
  IF IsNone(battle.active_pokemon) \/ IsNone(battle.opponent_active_pokemon) THEN FZero
  ELSE IF action.type = "move" THEN EvaluateMove(battle, action.move, action.tera)
  ELSE IF action.type = "switch" THEN EvaluateSwitch(battle, action.target)
  ELSE FZero

(***************************************************************************)
(* Intent memory                                                           *)
(***************************************************************************)
HazardMoves == {"stealthrock", "spikes", "toxicspikes"}

\* faulty variant: an intent counts even when its turns have run out
HasIntentName(st) == st.intent \in {"hazard_stack", "cm_push"}

_has_commit_intent(st) ==
  st.intent \in {"hazard_stack", "cm_push"} /\ st.intent_turns > 0

_intent_still_safe(battle) ==
  /\ ~IsNone(battle.active_pokemon)
  /\ ~IsNone(battle.opponent_active_pokemon)
  /\ FLe(_danger_multiplier(battle.active_pokemon, battle.opponent_active_pokemon),
         F(13, 10))

\* the first available move in the wanted set, "None" when there is none
FirstMoveIn(moves, wanted) ==
  IF \E i \in 1..Len(moves) : moves[i] \in wanted
  THEN moves[CHOOSE i \in 1..Len(moves) :
               moves[i] \in wanted /\ \A j \in 1..(i - 1) : moves[j] \notin wanted]
  ELSE "None"

\* faulty variant: the intent's usual move, without looking at available_moves
MoveForIntentUnchecked(battle, st) ==
  IF st.intent = "hazard_stack" THEN "stealthrock"
  ELSE IF st.intent = "cm_push" THEN "calmmind"
  ELSE "None"

_move_for_intent(battle, st) ==
  IF st.intent = "hazard_stack" THEN FirstMoveIn(battle.available_moves, HazardMoves)
  ELSE IF st.intent = "cm_push" THEN FirstMoveIn(battle.available_moves, {"calmmind"})
  ELSE "None"

\* faulty variant: a commitment window of three turns
SetIntentLonger(st, m) ==
  IF m \in HazardMoves THEN [st EXCEPT !.intent = "hazard_stack", !.intent_turns = 3]
  ELSE IF m = "calmmind" THEN [st EXCEPT !.intent = "cm_push", !.intent_turns = 3]
  ELSE IF st.intent_turns > 0 THEN [st EXCEPT !.intent_turns = @ - 1]
  ELSE [st EXCEPT !.intent = "None"]

_maybe_set_intent_from_move(st, m) ==
  IF m \in HazardMoves THEN [st EXCEPT !.intent = "hazard_stack", !.intent_turns = 2]
  ELSE IF m = "calmmind" THEN [st EXCEPT !.intent = "cm_push", !.intent_turns = 2]
  ELSE IF st.intent_turns > 0 THEN [st EXCEPT !.intent_turns = @ - 1]
  ELSE [st EXCEPT !.intent = "None"]

(***************************************************************************)
(* Action enumeration                                                      *)
(***************************************************************************)
\* reverse = True on the score: the greater score first
PrescoreBefore(x, y) == FLt(y[2], x[2])

\* key (safety, -offense), ascending
SwitchBefore(x, y) == FLt(x[2], y[2]) \/ (x[2] = y[2] /\ FLt(y[3], x[3]))

\* whether key(x) is strictly smaller than key(y) in the sort named by kind
Before(kind, x, y) ==
  IF kind = "prescores" THEN PrescoreBefore(x, y) ELSE SwitchBefore(x, y)

\* list.sort: a stable insertion sort, equal keys keep their order
InsertSorted(kind, sorted, x) ==
  LET later == {i \in 1..Len(sorted) : Before(kind, x, sorted[i])}
      at == IF later = {} THEN Len(sorted) + 1
            ELSE CHOOSE i \in later : \A j \in later : i <= j
  IN  SubSeq(sorted, 1, at - 1) \o <<x>> \o SubSeq(sorted, at, Len(sorted))

RECURSIVE SortLoop(_, _, _, _)
SortLoop(kind, items, i, sorted) ==
  IF i > Len(items) THEN sorted
  ELSE SortLoop(kind, items, i + 1, InsertSorted(kind, sorted, items[i]))

StableSort(kind, items) == SortLoop(kind, items, 1, <<>>)

Take(seq, n) == SubSeq(seq, 1, IF Len(seq) < n THEN Len(seq) ELSE n)

\* prescores: <<move, score>> for each available move, in order
RECURSIVE Prescores(_, _)
Prescores(battle, i) ==
  IF i > Len(battle.available_moves) THEN <<>>
  ELSE <<<<battle.available_moves[i],
           _move_damage_score(MoveData[battle.available_moves[i]],
                              battle.active_pokemon,
                              battle.opponent_active_pokemon)>>>>
       \o Prescores(battle, i + 1)

\* the first component of each item
Firsts(items) == [k \in 1..Len(items) |-> items[k][1]]

Top2(battle) == Firsts(Take(StableSort("prescores", Prescores(battle, 1)), 2))

\* scored_switches: <<mon, safety, offense>> for each available switch, in order
RECURSIVE ScoredSwitches(_, _)
ScoredSwitches(battle, i) ==
  IF i > Len(battle.available_switches) THEN <<>>
  ELSE <<<<battle.available_switches[i],
           _switch_safety_score(battle.available_switches[i],
                                battle.opponent_active_pokemon),
           _switch_offense_score(battle.available_switches[i],
                                 battle.opponent_active_pokemon)>>>>
       \o ScoredSwitches(battle, i + 1)

TopSwitches(battle) == Firsts(Take(StableSort("switches", ScoredSwitches(battle, 1)), 3))

\* faulty variant of the gate: no early-turn condition
TeraGateAnyTurn(battle, st) ==
  /\ battle.can_tera /\ ~st.tera_used
  /\ Len(battle.available_moves) > 0

\* the gate of the tera variants (lines 177-180)
TeraGate(battle, st) ==
  /\ battle.can_tera /\ ~st.tera_used
  /\ Len(battle.available_moves) > 0
  /\ (battle.turn >= 3 \/ _would_be_ko_likely(battle))

MoveActions(moves, tera) == [k \in 1..Len(moves) |-> MoveAction(moves[k], tera)]
SwitchActions(mons) == [k \in 1..Len(mons) |-> SwitchAction(mons[k])]

_enumerate_actions(battle, st) ==
  MoveActions(battle.available_moves, FALSE)
  \o (IF TeraGate(battle, st) THEN MoveActions(Top2(battle), TRUE) ELSE <<>>)
  \o SwitchActions(TopSwitches(battle))

\* _enumerate_actions raises: a prescore reads base_power of an own move without
\* data, or _would_be_ko_likely is reached and the opponent's reply raises
EnumerateRaises(battle, st) ==
  \/ AnyRaises(battle.available_moves)
  \/ /\ battle.can_tera /\ ~st.tera_used
     /\ battle.turn < 3
     /\ ~IsNone(battle.active_pokemon)
     /\ ReplyRaises(battle)

\* _evaluate_action raises on the first (move) candidate when the reply raises
EvaluateRaises(battle) ==
  /\ ~IsNone(battle.active_pokemon)
  /\ ReplyRaises(battle)

\* score = self._evaluate_action(battle, act) for each candidate, in order
RECURSIVE Scores(_, _, _)
Scores(battle, acts, i) ==
  IF i > Len(acts) THEN <<>>
  ELSE <<_evaluate_action(battle, acts[i])>> \o Scores(battle, acts, i + 1)

\* faulty variant of the evaluation loop: >= keeps the last maximum
RECURSIVE BestLoopLast(_, _, _, _)
BestLoopLast(scores, i, best, best_score) ==
  IF i > Len(scores) THEN best
  ELSE IF best = 0 \/ FLe(best_score, scores[i])
  THEN BestLoopLast(scores, i + 1, i, scores[i])
  ELSE BestLoopLast(scores, i + 1, best, best_score)

\* the evaluation loop of choose_move from candidate i on: best is the index of
\* the best so far (0 for None) and best_score its score (unused while best = 0,
\* where the code holds -inf)
RECURSIVE BestLoop(_, _, _, _)
BestLoop(scores, i, best, best_score) ==
  IF i > Len(scores) THEN best
  ELSE IF best = 0 \/ FLt(best_score, scores[i])
  THEN BestLoop(scores, i + 1, i, scores[i])
  ELSE BestLoop(scores, i + 1, best, best_score)

(***************************************************************************)
(* The inputs: battles the framework hands to choose_move.                 *)
(***************************************************************************)
Tags == {"A", "B"}

\* opp_repeat_count grows without limit while the opponent repeats its move.
\* Only the tracker writes it (lines 812-819) and nothing reads it, so a call
\* differs by it in the stored count alone.  The battles played (Next,
\* NextPair) are those in which it stays within MaxRepeat; choose_move itself
\* accepts every call.
MaxRepeat == 2

Mon(species, types, tera_type, moves, spe, atk, spa, bspe) ==
  [species |-> species, types |-> types, tera_type |-> tera_type, hp |-> FOne,
   status |-> "None", boosts |-> NoBoosts, moves |-> moves, spe |-> spe,
   base_stats |-> [atk |-> atk, spa |-> spa, spe |-> bspe], fainted |-> FALSE,
   last_move |-> "None"]

\* the team of the agent (the team string)
Necrozma == Mon("necrozmaduskmane", <<"PSYCHIC", "STEEL">>, "STEEL",
                <<"stealthrock", "sunsteelstrike", "earthquake", "morningsun">>,
                190, 157, 113, 77)
ArceusFairy == Mon("arceusfairy", <<"FAIRY">>, "FAIRY",
                   <<"judgment", "calmmind", "recover", "earthpower">>, 372, 120, 120, 120)
Giratina == Mon("giratinaorigin", <<"GHOST", "DRAGON">>, "GHOST",
                <<"willowisp", "hex", "defog", "dragontail">>, 216, 120, 120, 90)
TingLu == Mon("tinglu", <<"DARK", "GROUND">>, "WATER",
              <<"spikes", "whirlwind", "ruination", "earthquake">>, 126, 110, 55, 45)
Gholdengo == Mon("gholdengo", <<"STEEL", "GHOST">>, "FLYING",
                 <<"makeitrain", "shadowball", "nastyplot", "recover">>, 204, 60, 133, 84)

\* opponents: stats unknown (spe 0), moves as revealed so far
Kyogre(moves, last) ==
  [Mon("kyogre", <<"WATER">>, "None", moves, 0, 100, 150, 90) EXCEPT !.last_move = last]
HoOh(moves, last) ==
  [Mon("hooh", <<"FIRE", "FLYING">>, "None", moves, 0, 130, 110, 90) EXCEPT !.last_move = last]
Koraidon(moves, last) ==
  [Mon("koraidon", <<"FIGHTING", "DRAGON">>, "None", moves, 0, 135, 85, 135)
     EXCEPT !.last_move = last]

Seen(n, fainted) == [i \in 1..n |-> [fainted |-> i <= fainted]]

Battle(active, moves, switches, opp, sc, osc, oteam) ==
  [active_pokemon |-> active, available_moves |-> moves, available_switches |-> switches,
   opponent_active_pokemon |-> opp, side_conditions |-> sc,
   opponent_side_conditions |-> osc, opponent_team |-> oteam]

SR == <<[k |-> "stealthrock", v |-> 0]>>
SpikesWeb == <<[k |-> "spikes (side condition) object", v |-> 2],
               [k |-> "stickyweb", v |-> 0]>>

\* the scenes: what a battle shows apart from its tag, turn and can_tera
Scenes ==
  [\* hazard lead against a passive opponent
   HazardLead |->
     Battle(Necrozma, Necrozma.moves, <<ArceusFairy, Gholdengo>>,
            Kyogre(<<>>, "None"), <<>>, <<>>, Seen(3, 0)),
   \* rocks already up, the opponent repeating a move, more than three switches
   RocksUp |->
     Battle(Necrozma, Necrozma.moves, <<ArceusFairy, Gholdengo, TingLu, Giratina>>,
            Kyogre(<<"originpulse", "thunder">>, "originpulse"), <<>>, SR, Seen(3, 0)),
   \* hazard setter locked out of Stealth Rock
   LockedOut |->
     Battle(Necrozma, <<"sunsteelstrike", "earthquake">>, <<Gholdengo>>,
            Kyogre(<<"originpulse">>, "originpulse"), SR, <<>>, Seen(4, 2)),
   \* threatened setter: the opponent hits it super effectively
   Threatened |->
     Battle([Necrozma EXCEPT !.hp = F(1, 4)], Necrozma.moves, <<ArceusFairy, TingLu>>,
            HoOh(<<"sacredfire", "bravebird">>, "None"), SpikesWeb, <<>>, Seen(3, 0)),
   \* Calm Mind sweeper
   Sweeper |->
     Battle(ArceusFairy, ArceusFairy.moves, <<Necrozma, Giratina>>,
            Koraidon(<<"collisioncourse", "flareblitz">>, "None"), <<>>, SpikesWeb,
            Seen(4, 0)),
   BoostedSweeper |->
     Battle([ArceusFairy EXCEPT !.boosts.spa = 2], ArceusFairy.moves, <<>>,
            Kyogre(<<>>, "None"), <<>>, <<>>, Seen(6, 4)),
   \* phazer and spiker
   Phazer |->
     Battle(Giratina, Giratina.moves, <<TingLu>>,
            [HoOh(<<"sacredfire">>, "sacredfire") EXCEPT !.status = "brn", !.boosts.atk = 2],
            SR, SR, Seen(5, 1)),
   Spiker |->
     Battle(TingLu, TingLu.moves, <<Gholdengo, Giratina>>,
            Koraidon(<<>>, "None"), <<>>, <<>>, Seen(2, 0)),
   \* the opponent's side is empty between turns
   EmptySide |->
     Battle(Necrozma, Necrozma.moves, <<ArceusFairy>>, NoPokemon, <<>>, <<>>, Seen(3, 1)),
   \* a revealed move, or an own move, the library has no data for
   UnknownReply |->
     Battle(Necrozma, Necrozma.moves, <<ArceusFairy>>,
            Kyogre(<<"originpulse", "unknownmove">>, "None"), <<>>, <<>>, Seen(3, 0)),
   UnknownOwn |->
     Battle(ArceusFairy, <<"calmmind", "unknownmove">>, <<Necrozma>>,
            Kyogre(<<>>, "None"), <<>>, <<>>, Seen(3, 0)),
   \* forced switches: the active fainted, no move available
   ForcedSwitch |->
     Battle([Necrozma EXCEPT !.hp = FZero, !.fainted = TRUE], <<>>,
            <<ArceusFairy, Gholdengo, Giratina>>,
            Kyogre(<<"originpulse">>, "originpulse"), SpikesWeb, SpikesWeb, Seen(3, 0)),
   ForcedSwitchTie |->
     Battle([ArceusFairy EXCEPT !.hp = FZero, !.fainted = TRUE], <<>>,
            <<TingLu, [Giratina EXCEPT !.moves = <<"hex", "unknownmove">>], Necrozma>>,
            HoOh(<<>>, "None"), <<>>, <<>>, Seen(3, 0)),
   \* both actives fainted: nothing is known of the opponent's next mon
   DoubleFaint |->
     Battle([Necrozma EXCEPT !.hp = FZero, !.fainted = TRUE], <<>>,
            <<ArceusFairy, TingLu>>, NoPokemon, <<>>, <<>>, Seen(3, 1)),
   LastMon |->
     Battle([TingLu EXCEPT !.hp = FZero, !.fainted = TRUE], <<>>, <<>>,
            Koraidon(<<"collisioncourse">>, "collisioncourse"), <<>>, <<>>, Seen(3, 0))]

\* the battles made of scene s with the given tags, turns and can_tera values
Vary(s, tags, turns, teras) ==
  { [battle_tag |-> tag, turn |-> turn, can_tera |-> can_tera,
     active_pokemon |-> s.active_pokemon, available_moves |-> s.available_moves,
     available_switches |-> s.available_switches,
     opponent_active_pokemon |-> s.opponent_active_pokemon,
     side_conditions |-> s.side_conditions,
     opponent_side_conditions |-> s.opponent_side_conditions,
     opponent_team |-> s.opponent_team] :
    tag \in tags, turn \in turns, can_tera \in teras }

\* turn 1 (tera gated), turn 3 (tera open), turn 13 (late: Calm Mind devalued)
Turns == {1, 3, 13}

\* decisions of a single battle
SoloBattles ==
  UNION ({ Vary(s, {"A"}, Turns, BOOLEAN) :
             s \in {Scenes.HazardLead, Scenes.Threatened, Scenes.Sweeper,
                    Scenes.Spiker} }
         \cup { Vary(s, {"A"}, {3}, {TRUE}) :
             s \in {Scenes.RocksUp, Scenes.LockedOut, Scenes.BoostedSweeper,
                    Scenes.Phazer, Scenes.EmptySide, Scenes.UnknownReply,
                    Scenes.UnknownOwn, Scenes.ForcedSwitch, Scenes.ForcedSwitchTie,
                    Scenes.DoubleFaint, Scenes.LastMon} })

\* decisions of two battles played at the same time
PairBattles ==
  UNION { Vary(s, Tags, {3}, {TRUE}) :
            s \in {Scenes.HazardLead, Scenes.LockedOut, Scenes.Sweeper, Scenes.Spiker} }

Battles == SoloBattles \cup PairBattles

(***************************************************************************)
(* The agent's state and the decision function                             *)
(***************************************************************************)
VARIABLES
  _state,    \* self._state: battle tag -> scratch entry, for the tags seen so far
  last_battle, \* the argument of the latest call of choose_move
  result,    \* what that call returned and how it got there
  honored    \* per tag: decisions answered by the commit path since intent_turns
             \* was last set to 2

vars == <<_state, last_battle, result, honored>>

\* the entry _get_battle_state creates for a new key
Fresh ==
  [tera_used |-> FALSE, opp_last_move_id |-> "None", opp_repeat_count |-> 0,
   intent |-> "None", intent_turns |-> 0]

\* faulty variant of the key: one entry shared by every battle
SharedKey(b) == "A"

\* key = battle.battle_tag (line 783)
Key(b) == b.battle_tag

\* the entry of the battle's key, created on first use
_get_battle_state(b) ==
  IF Key(b) \in DOMAIN _state THEN _state[Key(b)] ELSE Fresh

_update_opponent_repeat_tracker(st, b) ==
  LET opp == b.opponent_active_pokemon
      move_id == opp.last_move
  IN  IF IsNone(opp) THEN st
      ELSE IF move_id = "None"
      THEN [st EXCEPT !.opp_repeat_count = IF @ - 1 < 0 THEN 0 ELSE @ - 1]
      ELSE IF st.opp_last_move_id = move_id
      THEN [st EXCEPT !.opp_repeat_count = @ + 1]
      ELSE [st EXCEPT !.opp_last_move_id = move_id, !.opp_repeat_count = 1]

\* what choose_move returns: create_order(move), create_order(move,
\* terastallize=True), create_order(mon), or the pick of a random-choice helper
MoveOrder(m, tera) ==
  [kind |-> "move", move |-> m, terastallize |-> tera, target |-> NoPokemon]
SwitchOrder(mon) ==
  [kind |-> "switch", move |-> "None", terastallize |-> FALSE, target |-> mon]
choose_random_move == 
  [kind |-> "random_move", move |-> "None", terastallize |-> FALSE, target |-> NoPokemon]
choose_random_switch ==
  [kind |-> "random_switch", move |-> "None", terastallize |-> FALSE, target |-> NoPokemon]

\* faulty variant of the except clause: the two helpers swapped
ExceptHandlerSwapped(b) ==
  IF Len(b.available_moves) > 0 THEN choose_random_switch ELSE choose_random_move

\* the except clause (lines 152-155)
ExceptHandler(b) ==
  IF Len(b.available_moves) > 0 THEN choose_random_move ELSE choose_random_switch

\* the commit test (lines 113-115), safe the value of _intent_still_safe(b)
CommitTaken(b, st, safe) ==
  /\ _has_commit_intent(st)
  /\ safe
  /\ _move_for_intent(b, st) # "None"

\* faulty variant: the tera order is returned, tera_used is not recorded
AfterBestMoveForgets(st, best) == _maybe_set_intent_from_move(st, best.move)

\* what the emitted best move does to the scratch entry (lines 138-144)
AfterBestMove(st, best) ==
  LET st2 == _maybe_set_intent_from_move(st, best.move)
  IN  IF best.tera THEN [st2 EXCEPT !.tera_used = TRUE] ELSE st2

Outcome(order, st, path, raised) ==
  [order |-> order, st |-> st, path |-> path, raised |-> raised]

\* the evaluation loop over the candidates acts with their scores
Evaluation(acts, scores) ==
  [acts |-> acts, scores |-> scores, best |-> BestLoop(scores, 1, 0, FZero)]

EvaluationOf(b, acts) == Evaluation(acts, Scores(b, acts, 1))

\* Evaluation cache.  The candidates, their scores and the index of the best one
\* depend on the battle and on st.tera_used only, and the forced switch on the
\* battle only; they are computed once per battle here and looked up by Decide.
Evaluated ==
  [b \in Battles |->
    [tu \in BOOLEAN |->
      EvaluationOf(b, _enumerate_actions(b, [Fresh EXCEPT !.tera_used = tu]))]]

Picked == [b \in Battles |-> _pick_best_switch(b)]

\* _intent_still_safe depends on the battle only and is cached the same way
IntentSafe == [b \in Battles |-> _intent_still_safe(b)]

CandidatesOf(b, st) == Evaluated[b][st.tera_used].acts
ScoresOf(b, st) == Evaluated[b][st.tera_used].scores

\* lines 100-107: no move available, sw the pick of _pick_best_switch
MustSwitch(st, sw) ==
  IF ~IsNone(sw)
  THEN Outcome(SwitchOrder(sw), st, "forced_switch", FALSE)
  ELSE Outcome(choose_random_switch, st, "no_switch", FALSE)

\* lines 132-148: best is the candidate the evaluation loop selected
EmitBest(st, best) ==
  IF best.type = "move"
  THEN Outcome(MoveOrder(best.move, best.tera), AfterBestMove(st, best), "evaluate", FALSE)
  ELSE Outcome(SwitchOrder(best.target), st, "evaluate", FALSE)

\* lines 109-155 with st the entry after the tracker update, ev the
\* candidates, scores and best index of the evaluation, and safe the value of
\* _intent_still_safe(b)
WithMoves(b, st, ev, safe) ==
  IF CommitTaken(b, st, safe)
  THEN Outcome(MoveOrder(_move_for_intent(b, st), FALSE),
               [st EXCEPT !.intent_turns = @ - 1], "commit", FALSE)
  ELSE IF EnumerateRaises(b, st) \/ EvaluateRaises(b)
  THEN Outcome(ExceptHandler(b), st, "except", TRUE)
  ELSE IF ev.best = 0
  THEN Outcome(MoveOrder(b.available_moves[1], FALSE), st, "fallback", FALSE)
  ELSE EmitBest(st, ev.acts[ev.best])

\* one call of choose_move(b) with st0 the scratch entry of b's key: the order
\* returned, the entry afterwards, the path taken and whether the try block raised
DecideFrom(b, st0) ==
  IF Len(b.available_moves) = 0 THEN MustSwitch(st0, Picked[b])
  ELSE WithMoves(b, _update_opponent_repeat_tracker(st0, b),
                 Evaluated[b][st0.tera_used], IntentSafe[b])

Decide(b) == DecideFrom(b, _get_battle_state(b))

\* the evaluation path selected a hazard move or Calm Mind: intent_turns := 2
SetsIntent(out) ==
  out.path = "evaluate" /\ out.order.kind = "move"
  /\ out.order.move \in HazardMoves \cup {"calmmind"}

\* one call: out is what Decide returns; the entry of b's key, the record of
\* the call and the count of commit-path decisions are updated
choose_move(b) ==
  \E out \in {Decide(b)} :
    /\ _state' = [t \in DOMAIN _state \cup {Key(b)} |->
                    IF t = Key(b) THEN out.st ELSE _state[t]]
    /\ last_battle' = b
    /\ result' = [order |-> out.order, path |-> out.path, raised |-> out.raised,
                  before |-> _get_battle_state(b),
                  created |-> Key(b) \notin DOMAIN _state]
    /\ honored' = [honored EXCEPT ![Key(b)] =
                     IF out.path = "commit" THEN @ + 1
                     ELSE IF SetsIntent(out) THEN 0
                     ELSE @]

\* after __init__: no battle seen, nothing returned yet
NoBattle ==
  [battle_tag |-> "None", turn |-> 0, can_tera |-> FALSE, active_pokemon |-> NoPokemon,
   available_moves |-> <<>>, available_switches |-> <<>>,
   opponent_active_pokemon |-> NoPokemon, side_conditions |-> <<>>,
   opponent_side_conditions |-> <<>>, opponent_team |-> <<>>]

Init ==
  /\ _state = [t \in {} |-> Fresh]
  /\ last_battle = NoBattle
  /\ result = [order |-> [kind |-> "None", move |-> "None", terastallize |-> FALSE,
                          target |-> NoPokemon],
               path |-> "init", raised |-> FALSE,
               before |-> Fresh, created |-> FALSE]
  /\ honored = [t \in Tags |-> 0]

\* one agent playing one battle in which the opponent's repeats stay within
\* MaxRepeat
Next ==
  \E b \in SoloBattles :
    /\ Len(b.available_moves) > 0 =>
         _update_opponent_repeat_tracker(_get_battle_state(b), b).opp_repeat_count
           <= MaxRepeat
    /\ choose_move(b)

Spec == Init /\ [][Next]_vars

\* one agent playing two such battles, its decisions interleaved in any order
NextPair ==
  \E b \in PairBattles :
    /\ Len(b.available_moves) > 0 =>
         _update_opponent_repeat_tracker(_get_battle_state(b), b).opp_repeat_count
           <= MaxRepeat
    /\ choose_move(b)

SpecPair == Init /\ [][NextPair]_vars

(***************************************************************************)
(* The latest call of choose_move, as the state records it                 *)
(***************************************************************************)
Called == result.path # "init"

HasMoves == Len(last_battle.available_moves) > 0

\* the entry of the call's battle after the call
EntryAfter == _state[last_battle.battle_tag]

\* the entry the call worked on once the tracker was updated
EntryTracked == _update_opponent_repeat_tracker(result.before, last_battle)

\* the candidates of the call and their scores, in enumeration order
LatestCandidates == CandidatesOf(last_battle, EntryTracked)
LatestScores == ScoresOf(last_battle, EntryTracked)

Elems(seq) == {seq[i] : i \in 1..Len(seq)}

\* the order that emits a candidate
OrderOf(act) ==
  IF act.type = "move" THEN MoveOrder(act.move, act.tera) ELSE SwitchOrder(act.target)

\* no score is strictly greater than the i-th; and the i-th is the first such
IsMax(scores, i) == \A j \in 1..Len(scores) : ~FLt(scores[i], scores[j])
IsFirstMax(scores, i) ==
  IsMax(scores, i) /\ \A j \in 1..(i - 1) : FLt(scores[j], scores[i])

HasTeraCandidate(acts) ==
  \E i \in 1..Len(acts) : acts[i].type = "move" /\ acts[i].tera

(***************************************************************************)
(* Properties                                                              *)
(***************************************************************************)
\* C1: choose_move never propagates a failure of its decision logic.  The
\* logic raises exactly when, with a move available and no intent honored,
\* the enumeration or the evaluation meets a move without data; the call then
\* returns choose_random_move(battle) when available_moves is non-empty and
\* choose_random_switch(battle) otherwise.
C1_FailureFallsBack ==
  Called =>
    LET raises == /\ HasMoves
                  /\ ~CommitTaken(last_battle, EntryTracked,
                                  _intent_still_safe(last_battle))
                  /\ \/ EnumerateRaises(last_battle, EntryTracked)
                     \/ EvaluateRaises(last_battle)
    IN  /\ result.raised = raises
        /\ result.raised =>
             result.order = IF HasMoves THEN choose_random_move ELSE choose_random_switch

\* a call whose logic raised (a revealed move without data) fell back
C1_Witness ==
  Called /\ result.raised /\ HasMoves /\ result.order.kind = "random_move"

\* C2: every call returns exactly one action; unless a random-choice helper
\* made it, it is a move order (possibly terastallize) whose move is in
\* battle.available_moves, or a switch order whose target is in
\* battle.available_switches.
C2_OneLegalAction ==
  Called =>
    /\ result.order.kind \in {"move", "switch", "random_move", "random_switch"}
    /\ result.order.kind = "move" =>
         /\ result.order.move \in Elems(last_battle.available_moves)
         /\ result.order.target = NoPokemon
    /\ result.order.kind = "switch" =>
         /\ result.order.target \in Elems(last_battle.available_switches)
         /\ result.order.move = "None" /\ ~result.order.terastallize

\* a live hazard intent whose usual move is not available: a legal move is
\* ordered all the same
C2_Witness ==
  /\ Called /\ result.order.kind = "move"
  /\ result.before.intent = "hazard_stack" /\ result.before.intent_turns > 0
  /\ "stealthrock" \notin Elems(last_battle.available_moves)

C4_NoMovesSwitches ==
  (Called /\ ~HasMoves) =>
    LET mons == last_battle.available_switches
        values == [k \in 1..Len(mons) |-> SwitchValue(last_battle, mons[k])]
    IN  /\ IF Len(mons) > 0
           THEN \E i \in 1..Len(mons) :
                  result.order = SwitchOrder(mons[i]) /\ IsFirstMax(values, i)
           ELSE result.order = choose_random_switch
        /\ EntryAfter = result.before

\* a forced switch to a mon that is not the first candidate, in a battle whose
\* entry already held something
C4_Witness ==
  /\ Called /\ ~HasMoves /\ result.order.kind = "switch"
  /\ result.order.target # last_battle.available_switches[1]
  /\ result.before # Fresh

\* C5: the scratch state is per battle.  A call for a battle leaves the entry
\* of every other tag as it was, and what it returns and writes is determined
\* by the battle and the entry of its own tag.
C5_EntriesPerBattle ==
  [][LET b == last_battle'
         own == IF b.battle_tag \in DOMAIN _state THEN _state[b.battle_tag] ELSE Fresh
     IN  /\ \A t \in DOMAIN _state :
              t # b.battle_tag => (t \in DOMAIN _state' /\ _state'[t] = _state[t])
         /\ b.battle_tag \in DOMAIN _state'
         /\ result'.order = DecideFrom(b, own).order
         /\ _state'[b.battle_tag] = DecideFrom(b, own).st]_vars

\* battle A decided and its entry rewritten while the entry of B holds
\* something else
C5_Witness ==
  /\ Called /\ DOMAIN _state = Tags /\ last_battle.battle_tag = "A"
  /\ EntryAfter # result.before
  /\ _state["B"] # Fresh /\ _state["B"] # _state["A"]

\* C6: tera_used starts false, becomes true exactly when the call returns an
\* order with terastallize set, never returns to false, and once it is true
\* no tera candidate is enumerated and no terastallize order is returned by
\* the scored path.
C6_TeraOnce ==
  Called =>
    /\ result.created => ~result.before.tera_used
    /\ EntryAfter.tera_used =
         (result.before.tera_used
          \/ (result.order.kind = "move" /\ result.order.terastallize))
    /\ result.before.tera_used =>
         /\ ~result.order.terastallize
         /\ HasMoves => ~HasTeraCandidate(LatestCandidates)

\* a scored decision after tera was used, in a battle that still reports can_tera
C6_Witness ==
  /\ Called /\ result.path = "evaluate"
  /\ result.before.tera_used /\ last_battle.can_tera /\ last_battle.turn >= 3

\* C7: a tera candidate, and so a terastallize order of the scored path,
\* requires can_tera and tera_used false, and on turns 1 and 2 also that the
\* normalized opponent reply damage exceeds the current HP fraction + 0.15.
C7_EarlyTeraGated ==
  (Called /\ result.path = "evaluate") =>
    LET b == last_battle
        reply == _opponent_reply_damage_score(b, b.active_pokemon.types)
        ko_likely == FLt(FAdd(b.active_pokemon.hp, F(15, 100)),
                         _normalize_damage_score(reply))
    IN  (HasTeraCandidate(LatestCandidates) \/ result.order.terastallize) =>
          /\ b.can_tera /\ ~result.before.tera_used
          /\ b.turn >= 3 \/ ko_likely

\* a terastallize order on an early turn, let through by the likely KO
C7_Witness ==
  /\ Called /\ result.path = "evaluate" /\ last_battle.turn < 3
  /\ HasTeraCandidate(LatestCandidates) /\ result.order.terastallize

\* C8: the evaluation path selecting a hazard move sets hazard_stack with
\* intent_turns 2, selecting Calm Mind sets cm_push with intent_turns 2.  With
\* moves available, the call takes the commit path (the first available move
\* matching the intent, no terastallization, no evaluation, intent_turns
\* decremented by exactly 1) if and only if intent_turns > 0, both actives
\* are present, the danger multiplier is <= 1.3 and a matching move is
\* available.
C8_IntentMemory ==
  Called =>
    LET b == last_battle
        wanted == IF result.before.intent = "hazard_stack" THEN HazardMoves
                  ELSE IF result.before.intent = "cm_push" THEN {"calmmind"}
                  ELSE {}
        matching == {i \in 1..Len(b.available_moves) : b.available_moves[i] \in wanted}
        first == CHOOSE i \in matching : \A j \in matching : i <= j
        condition == /\ result.before.intent_turns > 0
                     /\ ~IsNone(b.active_pokemon) /\ ~IsNone(b.opponent_active_pokemon)
                     /\ FLe(_danger_multiplier(b.active_pokemon, b.opponent_active_pokemon),
                            F(13, 10))
                     /\ matching # {}
    IN  /\ (result.path = "evaluate" /\ result.order.kind = "move"
            /\ result.order.move \in HazardMoves) =>
             (EntryAfter.intent = "hazard_stack" /\ EntryAfter.intent_turns = 2)
        /\ (result.path = "evaluate" /\ result.order.kind = "move"
            /\ result.order.move = "calmmind") =>
             (EntryAfter.intent = "cm_push" /\ EntryAfter.intent_turns = 2)
        /\ HasMoves => ((result.path = "commit") <=> condition)
        /\ result.path = "commit" =>
             /\ result.order = MoveOrder(b.available_moves[first], FALSE)
             /\ ~result.raised
             /\ EntryAfter.intent_turns = result.before.intent_turns - 1
             /\ EntryAfter.intent = result.before.intent
             /\ EntryAfter.tera_used = result.before.tera_used

\* an intent honored where the evaluation would have raised: no candidate was
\* evaluated
C8_Witness ==
  /\ Called /\ result.path = "commit"
  /\ EnumerateRaises(last_battle, EntryTracked)

\* C9: between two decisions at which the evaluation path selects a hazard
\* move or Calm Mind, at most 2 decisions of the battle are answered by the
\* commit path.
C9_IntentShort == \A t \in Tags : honored[t] <= 2

\* the second honored decision of an intent
C9_Witness ==
  /\ Called /\ result.path = "commit"
  /\ honored[last_battle.battle_tag] = 2

====
